---- MODULE Spec2Model ----
(***************************************************************************)
(* call-next: stepping through the intercepted calls of an asynchronous    *)
(* function.  The model holds the shared call registry of src/src/stub.ts  *)
(* (context.calls, context.stub), the promises the registry entries settle,*)
(* and the microtask queue that orders every continuation.                 *)
(*                                                                         *)
(* JavaScript values are records [t, n]: t is the type tag of the value    *)
(* (or, for a string or an Error, its text) and n the numbers it carries.  *)
(* `await p` on a native promise is PerformPromiseThen(p, continuation):   *)
(* one microtask turn once p is settled.                                   *)
(***************************************************************************)
EXTENDS Integers, Sequences, FiniteSets, TLC

\* Bounds of the model: promises ever created in one run of the free test
\* code, and next() calls made by the stepping test.
MaxPromises == 3
MaxTicks == 3
\* Room for every promise the stepping test and its function under test make.
FlowPromises == 16
\* Promises ever created in one run of test code that keeps an entry.
KeepPromises == 2
\* Promises ever created in one run of test code that nests withStub.
NestPromises == 4

VARIABLES
    context,    \* stub.ts: the global { calls, stub } object
    promises,   \* every promise created so far, by creation order
    queue,      \* the microtask queue: promise reaction jobs, FIFO
    tasks,      \* the test code: the runner and the bodies given to withStub
    stack,      \* tasks executing synchronously, innermost first
    futs,       \* activations of the function under test (getTestFn)
    realCalls,  \* invocations of the real wrapped functions (the Sinon spy)
    tracked,    \* the commands given to track() since the last reset()
    heapLimit   \* number of promises the run may create

vars == <<context, promises, queue, tasks, stack, futs, realCalls, tracked,
          heapLimit>>

---------------------------------------------------------------------------
\* Values

Undefined == [t |-> "undefined", n |-> <<>>]
Num(k) == [t |-> "number", n |-> <<k>>]
Arr(s) == [t |-> "array", n |-> s]
SplatErr == [t |-> "Error: Splat!", n |-> <<>>]
WhoopsErr == [t |-> "Error: Whoops", n |-> <<>>]
\* done.ts: the string assertDone's competing promise rejects with
NotDoneMsg == [t |-> "Promise has not resolved or rejected", n |-> <<>>]

\* Values the test resolves a call with, and errors it rejects one with.
ResolveValues == {Num(5), Num(10)}
RejectErrors == {SplatErr}

\* The wrapped functions of index.test.ts and the contexts they are bound to.
\* incr is the field the contextual tick adds.
Incr(ctx) == IF ctx = "contextObj2" THEN 10 ELSE 1

\* The string "tick" given to call as a method name; every other fn is a
\* function reference.
TickName == "'tick'"
IsName(fn) == fn = TickName

\* context[name] for the contexts of index.test.ts: contextObj has the
\* method tick, contextObj2 = { incr: 10 } has none.
Member(ctx, name) ==
    IF ctx = "contextObj" /\ name = TickName THEN "contextObj.tick"
    ELSE "undefined"

\* (context, fn, args) triples the test passes to call(...)(...):
\* call(tick)(1), call(null, tick)(2), call(contextObj, "tick")(1) and
\* call(contextObj2, contextObj.tick)(2)
Invocations ==
    { [context |-> "undefined", fn |-> "tick", args |-> <<1>>],
      [context |-> "null", fn |-> "tick", args |-> <<2>>],
      [context |-> "contextObj", fn |-> TickName, args |-> <<1>>],
      [context |-> "contextObj2", fn |-> "contextObj.tick", args |-> <<2>>] }

\* What the real function returns: tick(ret) = Promise.resolve(ret),
\* contextObj.tick(n) = Promise.resolve(n + this.incr)
RealResult(c) ==
    IF c.fn = "contextObj.tick" THEN Num(c.args[1] + Incr(c.context))
    ELSE Num(c.args[1])

---------------------------------------------------------------------------
\* Promises and the microtask queue.  W is the state one synchronous run
\* threads through its steps: [ctx, ps, q, real, futs, log, ret],
\* ret being the value the last step returned (a promise id, 0 for none).

Reaction(kind, target, idx) == [kind |-> kind, target |-> target, idx |-> idx]
Job(r, state, value, origin) ==
    [r |-> r, state |-> state, value |-> value, origin |-> origin]

\* new Promise(...): a pending promise.  kind names what created it; src is
\* what its creator closes over (the promise assertDone races) and seen the
\* state that promise had then; elems and remaining are Promise.all's
\* collected values and count; origin is what settled the promise ("handle":
\* a resolve or reject function of getCalls(), "real": a wrapped function).
NewPromise(W, kind, src) ==
    [W EXCEPT !.ps = Append(@,
        [state |-> "pending", value |-> Undefined, reactions |-> <<>>,
         kind |-> kind, src |-> src, seen |-> "none",
         elems |-> <<>>, remaining |-> 0, origin |-> "none"]),
              !.ret = Len(W.ps) + 1]

JobsOf(rs, state, value, origin) ==
    [i \in 1..Len(rs) |-> Job(rs[i], state, value, origin)]

\* resolve / reject functions of which the last call wins
Settle_lastWins(W, p, state, value, origin) ==
    [W EXCEPT !.ps[p].state = state, !.ps[p].value = value,
              !.ps[p].origin = origin, !.ps[p].reactions = <<>>,
              !.q = @ \o JobsOf(W.ps[p].reactions, state, value, origin)]

\* The resolve / reject functions of a promise: the first settlement wins,
\* a later one does nothing.  The reactions become jobs, in registration order.
Settle(W, p, state, value, origin) ==
    IF W.ps[p].state # "pending" THEN W
    ELSE [W EXCEPT !.ps[p].state = state, !.ps[p].value = value,
                   !.ps[p].origin = origin, !.ps[p].reactions = <<>>,
                   !.q = @ \o JobsOf(W.ps[p].reactions, state, value, origin)]

\* p.then(reaction) / await p: registered while p is pending, queued at once
\* when p is already settled.
Then(W, p, r) ==
    IF W.ps[p].state = "pending"
    THEN [W EXCEPT !.ps[p].reactions = Append(@, r)]
    ELSE [W EXCEPT !.q = Append(@,
            Job(r, W.ps[p].state, W.ps[p].value, W.ps[p].origin))]

\* Promise.resolve(v): an already fulfilled promise.
Resolved(W, v, kind, origin) ==
    LET W1 == NewPromise(W, kind, 0)
    IN  [Settle(W1, W1.ret, "fulfilled", v, origin) EXCEPT !.ret = W1.ret]

---------------------------------------------------------------------------
\* src/src/stub.ts

Truthy(flag) == flag = "true"

\* The ok / err function of `new Promise((ok, err) => ...)`: the promise it
\* settles and the state it settles it to.
Handle(p, to) == [p |-> p, to |-> to]

\* track without the normalisation of cmd.context
track_keepContext(W, cmd, by) ==
    IF ~Truthy(W.ctx.stub) THEN [W EXCEPT !.ret = 0]
    ELSE LET W1 == NewPromise(W, "call", 0)
             p == W1.ret
         IN  [W1 EXCEPT !.ctx.calls =
                  Append(@, [cmd |-> cmd, resolve |-> Handle(p, "fulfilled"),
                             reject |-> Handle(p, "rejected")]),
                        !.log = Append(@, [cmd |-> cmd, p |-> p, by |-> by])]

\* track with resolve and reject stored the wrong way round
track_swapped(W, cmd, by) ==
    IF ~Truthy(W.ctx.stub) THEN [W EXCEPT !.ret = 0]
    ELSE LET W1 == NewPromise(W, "call", 0)
             p == W1.ret
             c == IF cmd.context = "undefined" \/ cmd.context = "null"
                  THEN [fn |-> cmd.fn, args |-> cmd.args]
                  ELSE cmd
         IN  [W1 EXCEPT !.ctx.calls =
                  Append(@, [cmd |-> c, resolve |-> Handle(p, "rejected"),
                             reject |-> Handle(p, "fulfilled")]),
                        !.log = Append(@, [cmd |-> cmd, p |-> p, by |-> by])]

\* track with the entry put in front of the list instead of at its end
track_prepend(W, cmd, by) ==
    IF ~Truthy(W.ctx.stub) THEN [W EXCEPT !.ret = 0]
    ELSE LET W1 == NewPromise(W, "call", 0)
             p == W1.ret
             c == IF cmd.context = "undefined" \/ cmd.context = "null"
                  THEN [fn |-> cmd.fn, args |-> cmd.args]
                  ELSE cmd
         IN  [W1 EXCEPT !.ctx.calls =
                  <<[cmd |-> c, resolve |-> Handle(p, "fulfilled"),
                     reject |-> Handle(p, "rejected")]>> \o @,
                        !.log = Append(@, [cmd |-> cmd, p |-> p, by |-> by])]

\* track without its `if (! context.stub) return`
track_always(W, cmd, by) ==
    LET W1 == NewPromise(W, "call", 0)
        p == W1.ret
        c == IF cmd.context = "undefined" \/ cmd.context = "null"
             THEN [fn |-> cmd.fn, args |-> cmd.args]
             ELSE cmd
    IN  [W1 EXCEPT !.ctx.calls =
             Append(@, [cmd |-> c, resolve |-> Handle(p, "fulfilled"),
                        reject |-> Handle(p, "rejected")]),
                   !.log = Append(@, [cmd |-> cmd, p |-> p, by |-> by])]

\* stub.ts track: returns void (0) unless stubbing is active; otherwise
\* records { cmd, resolve, reject } and returns the deferred promise.
\* by is what runs the caller: "sync" for the test's own code, the origin
\* of the job for a continuation.
track(W, cmd, by) ==
    IF ~Truthy(W.ctx.stub) THEN [W EXCEPT !.ret = 0]
    ELSE LET W1 == NewPromise(W, "call", 0)
             p == W1.ret
             c == IF cmd.context = "undefined" \/ cmd.context = "null"
                  THEN [fn |-> cmd.fn, args |-> cmd.args]
                  ELSE cmd
         IN  [W1 EXCEPT !.ctx.calls =
                  Append(@, [cmd |-> c, resolve |-> Handle(p, "fulfilled"),
                             reject |-> Handle(p, "rejected")]),
                        !.log = Append(@, [cmd |-> cmd, p |-> p, by |-> by])]

stub(W) == [W EXCEPT !.ctx.stub = "true"]

\* reset that rejects the first call it drops
reset_rejectsDropped(W) ==
    LET W1 == IF W.ctx.calls = <<>> THEN W
              ELSE Settle(W, W.ctx.calls[1].resolve.p, "rejected", Undefined,
                          "reset")
    IN  [W1 EXCEPT !.ctx.calls = <<>>, !.log = <<>>]

reset(W) == [W EXCEPT !.ctx.calls = <<>>, !.log = <<>>]

\* unstub without its reset()
unstub_noReset(W) == [W EXCEPT !.ctx.stub = "false"]

unstub(W) == reset([W EXCEPT !.ctx.stub = "false"])

\* next without its reset()
next_noreset(W) ==
    LET W1 == NewPromise(W, "next", 0)
    IN  [W1 EXCEPT !.q = Append(@,
            Job(Reaction("asyncNext", W1.ret, 0), "fulfilled", Undefined, "next"))]

\* next without its `await Promise.resolve()`: the promise it returns is
\* fulfilled when it returns
next_noAwait(W) ==
    LET W1 == NewPromise(reset(W), "next", 0)
    IN  [Settle(W1, W1.ret, "fulfilled", Undefined, "next") EXCEPT !.ret = W1.ret]

\* next(): reset(), then `await Promise.resolve()`: the continuation of
\* next is queued at once; it fulfils the promise next() returned.
next(W) ==
    LET W1 == NewPromise(reset(W), "next", 0)
    IN  [W1 EXCEPT !.q = Append(@,
            Job(Reaction("asyncNext", W1.ret, 0), "fulfilled", Undefined, "next"))]

\* getCalls counting its entries from one
getCalls_oneBased(ctx, n) ==
    IF n >= 1 /\ n <= Len(ctx.calls) THEN <<ctx.calls[n]>> ELSE <<>>

\* getCalls(n): context.calls[n], undefined when n is out of range
\* (n is zero-based); the entry is given as a one-element sequence.
getCalls(ctx, n) ==
    IF n >= 0 /\ n < Len(ctx.calls) THEN <<ctx.calls[n + 1]>> ELSE <<>>

\* The command of an invocation: a method name is looked up in the context,
\* so that fn is always the function itself.
CmdOf(c) ==
    IF IsName(c.fn) THEN [c EXCEPT !.fn = Member(c.context, c.fn)] ELSE c

\* call that hands the method name on as it was given
call_keepName(W, c, by) ==
    LET W1 == track(W, c, by)
    IN  IF W1.ret # 0 THEN W1
        ELSE LET W2 == Resolved(W1, RealResult(c), "real", "real")
             IN  [W2 EXCEPT !.real = Append(@, c)]

\* call(context?, fn)(...args): the tracked promise while stubbing is
\* active, the real function applied to the context otherwise.
call(W, c, by) ==
    LET cmd == CmdOf(c)
        W1 == track(W, cmd, by)
    IN  IF W1.ret # 0 THEN W1
        ELSE LET W2 == Resolved(W1, RealResult(cmd), "real", "real")
             IN  [W2 EXCEPT !.real = Append(@, cmd)]

\* assertDone that only follows p, with no competing rejection
assertDone_noRace(W, p) ==
    LET W1 == NewPromise(W, "race", p)
        r == W1.ret
    IN  [Then(W1, p, Reaction("race", r, 1)) EXCEPT !.ps[r].seen = W.ps[p].state]

\* assertDone with the array the other way round:
\* Promise.race([Promise.reject(msg), p])
assertDone_rejectFirst(W, p) ==
    LET W1 == NewPromise(W, "race", p)
        r == W1.ret
        W2 == [W1 EXCEPT !.q = Append(@,
                  Job(Reaction("race", r, 1), "rejected", NotDoneMsg, "assertDone")),
                         !.ps[r].seen = W.ps[p].state]
    IN  Then(W2, p, Reaction("race", r, 2))

\* done.ts assertDone(p): Promise.race([p, Promise.reject(msg)]).  The race
\* subscribes to p first, then to the rejected promise, whose job is queued
\* immediately.
assertDone(W, p) ==
    LET W1 == NewPromise(W, "race", p)
        r == W1.ret
        W2 == Then(W1, p, Reaction("race", r, 1))
    IN  [W2 EXCEPT !.q = Append(@,
            Job(Reaction("race", r, 2), "rejected", NotDoneMsg, "assertDone")),
                   !.ps[r].seen = W.ps[p].state]

---------------------------------------------------------------------------
\* index.test.ts getTestFn: the function under test.
\*   let x = await call(spy)(1);
\*   let y = await Promise.all([call(spy)(2), call(spy)(3)]);
\*   return x + y[0] + y[1];

SpyCmd(k) == [context |-> "undefined", fn |-> "spy", args |-> <<k>>]

\* Promise.all([a, b]): subscribes to a, then to b.
PromiseAll(W, a, b) ==
    LET W1 == NewPromise(W, "all", 0)
        all == W1.ret
        W2 == [W1 EXCEPT !.ps[all].elems = <<0, 0>>, !.ps[all].remaining = 2]
    IN  Then(Then(W2, a, Reaction("allElem", all, 1)),
             b, Reaction("allElem", all, 2))

\* One element of a Promise.all settles: the first rejection rejects the
\* whole, the last fulfilment fulfils it with the array of values.
AllElement(W, all, idx, job) ==
    IF W.ps[all].state # "pending" THEN W
    ELSE IF job.state = "rejected"
    THEN Settle(W, all, "rejected", job.value, job.origin)
    ELSE LET W1 == [W EXCEPT !.ps[all].elems[idx] = job.value.n[1],
                             !.ps[all].remaining = @ - 1]
         IN  IF W1.ps[all].remaining = 0
             THEN Settle(W1, all, "fulfilled", Arr(W1.ps[all].elems), job.origin)
             ELSE W1

\* testFn(): runs to its first await.  A fut is one activation: pc counts
\* the awaits passed, x is its local, p its own promise, on the promise it
\* is awaiting.
StartTestFn(W, by) ==
    LET W1 == NewPromise(W, "fn", 0)
        endP == W1.ret
        W2 == call(W1, SpyCmd(1), by)
        f == Len(W.futs) + 1
        W3 == [W2 EXCEPT !.futs =
                  Append(@, [pc |-> 1, x |-> 0, p |-> endP, on |-> W2.ret])]
    IN  [Then(W3, W2.ret, Reaction("fut", f, 0)) EXCEPT !.ret = endP]

\* testFn resumes from an await with the job's outcome.
ResumeTestFn(W, f, job) ==
    LET fut == W.futs[f]
    IN  IF job.state = "rejected"
        THEN [Settle(W, fut.p, "rejected", job.value, job.origin)
                 EXCEPT !.futs[f].pc = 3]
        ELSE IF fut.pc = 1
        THEN LET W1 == call(W, SpyCmd(2), job.origin)
                 W2 == call(W1, SpyCmd(3), job.origin)
                 W3 == PromiseAll(W2, W1.ret, W2.ret)
             IN  [Then(W3, W3.ret, Reaction("fut", f, 0))
                     EXCEPT !.futs[f].pc = 2, !.futs[f].x = job.value.n[1],
                            !.futs[f].on = W3.ret]
        ELSE [Settle(W, fut.p, "fulfilled",
                     Num(fut.x + job.value.n[1] + job.value.n[2]), job.origin)
                 EXCEPT !.futs[f].pc = 3]

\* withStub with the cleanup after the await instead of in a finally block:
\* a rejection skips it
WithStubFinally_noFinally(W, ws, job) ==
    Settle(IF job.state = "fulfilled" THEN unstub(W) ELSE W,
           ws, job.state, job.value, job.origin)

\* withStub with a catch that swallows the body's error
WithStubFinally_swallow(W, ws, job) ==
    Settle(unstub(W), ws, "fulfilled",
           IF job.state = "fulfilled" THEN job.value ELSE Undefined, job.origin)

\* withStub's continuation after `await fn(getCalls, next)`: the finally
\* block runs unstub(), then withStub's promise takes the body's outcome.
WithStubFinally(W, ws, job) ==
    Settle(unstub(W), ws, job.state, job.value, job.origin)

\* Promises a job creates when it runs.
Allocates(W, job) ==
    IF job.r.kind = "fut" /\ job.state = "fulfilled" /\ W.futs[job.r.target].pc = 1
    THEN 3 ELSE 0

\* The job's reaction, which is not the resumption of a test task.
RunReaction(W, job) ==
    CASE job.r.kind = "fut" -> ResumeTestFn(W, job.r.target, job)
      [] job.r.kind = "allElem" -> AllElement(W, job.r.target, job.r.idx, job)
      [] job.r.kind = "race" ->
            Settle(W, job.r.target, job.state, job.value, job.origin)
      [] job.r.kind = "asyncNext" ->
            Settle(W, job.r.target, "fulfilled", Undefined, job.origin)
      [] job.r.kind = "withStubFinally" -> WithStubFinally(W, job.r.target, job)
      [] OTHER -> W

---------------------------------------------------------------------------
\* The test code.  A task is the runner (the top-level test function) or a
\* body passed to withStub; the running task is the head of the stack.
\* promise is the promise of an async body and ws that of its withStub;
\* first holds during the body's run up to its first await; awaiting and on
\* are the kind and the promise of its last await, last the outcome of that
\* await and result how the task ended; kept is the entry it saved in a
\* local (`let firstCall = getCalls(0)`), as a one-element sequence.

NoOutcome == [state |-> "none", value |-> Undefined]

Task(promise, ws, first, isAsync) ==
    [pc |-> "run", promise |-> promise, ws |-> ws, first |-> first,
     isAsync |-> isAsync, awaiting |-> "none", on |-> 0,
     last |-> NoOutcome, result |-> NoOutcome, kept |-> <<>>]

Init ==
    /\ context = [calls |-> <<>>, stub |-> "undefined"]
    /\ promises = <<>>
    /\ queue = <<>>
    /\ tasks = <<Task(0, 0, FALSE, TRUE)>>
    /\ stack = <<1>>
    /\ futs = <<>>
    /\ realCalls = <<>>
    /\ tracked = <<>>
    /\ heapLimit = MaxPromises

Running == stack # <<>>
Self == Head(stack)
Room(k) == Len(promises) + k <= heapLimit

W0 ==
    [ctx |-> context, ps |-> promises, q |-> queue, real |-> realCalls,
     futs |-> futs, log |-> tracked, ret |-> 0]

Commit(W) ==
    /\ context' = W.ctx
    /\ promises' = W.ps
    /\ queue' = W.q
    /\ realCalls' = W.real
    /\ futs' = W.futs
    /\ tracked' = W.log
    /\ UNCHANGED heapLimit

\* Control leaves task t (it awaits or ends).  When that ends the first run
\* of an async body, control is back in withStub, which awaits the promise
\* the body returned; then withStub's caller goes on.
Leave(W, t) ==
    IF tasks[t].first /\ tasks[t].isAsync
    THEN Then(W, tasks[t].promise, Reaction("withStubFinally", tasks[t].ws, 0))
    ELSE W

\* Task t suspends in `await p`.
Await(W, t, p, what) ==
    /\ Commit(Leave(Then(W, p, Reaction("awaitTask", t, 0)), t))
    /\ tasks' = [tasks EXCEPT ![t].pc = "await", ![t].awaiting = what,
                              ![t].on = p, ![t].first = FALSE]
    /\ stack' = Tail(stack)

\* call(context, fn)(...args), its promise not awaited
Call(c) ==
    /\ Running /\ Room(1)
    /\ Commit(call(W0, c, "sync"))
    /\ UNCHANGED <<tasks, stack>>

CallOp == \E c \in Invocations : Call(c)

\* A resolve / reject function that runs the continuation of the function
\* under test at once instead of queueing it
Invoke_runsNow(W, h, v) ==
    LET W1 == Settle(W, h.p, h.to, v, "handle")
    IN  IF Len(W1.q) > Len(W.q) /\ W1.q[Len(W1.q)].r.kind = "fut"
        THEN RunReaction([W1 EXCEPT !.q = SubSeq(@, 1, Len(@) - 1)],
                         W1.q[Len(W1.q)])
        ELSE W1

\* A resolve / reject function that also takes its entry off the ledger
Invoke_removeEntry(W, h, v) ==
    LET keep == SelectSeq(W.ctx.calls, LAMBDA e : e.resolve.p # h.p)
        kept == SelectSeq(W.log, LAMBDA l : l.p # h.p)
    IN  [Settle(W, h.p, h.to, v, "handle")
            EXCEPT !.ctx.calls = keep, !.log = kept]

\* Calling a resolve / reject function taken from getCalls()
Invoke(W, h, v) == Settle(W, h.p, h.to, v, "handle")

\* getCalls(i).resolve(v)
Resolve(i, v) ==
    /\ Running
    /\ getCalls(context, i) # <<>>
    /\ Commit(Invoke(W0, getCalls(context, i)[1].resolve, v))
    /\ UNCHANGED <<tasks, stack>>

\* getCalls(i).reject(e)
Reject(i, e) ==
    /\ Running
    /\ getCalls(context, i) # <<>>
    /\ Commit(Invoke(W0, getCalls(context, i)[1].reject, e))
    /\ UNCHANGED <<tasks, stack>>

Indexes == 0..(Len(context.calls) - 1)

ResolveOp == \E i \in Indexes, v \in ResolveValues : Resolve(i, v)

RejectOp == \E i \in Indexes, e \in RejectErrors : Reject(i, e)

StubOp == Running /\ Commit(stub(W0)) /\ UNCHANGED <<tasks, stack>>

UnstubOp == Running /\ Commit(unstub(W0)) /\ UNCHANGED <<tasks, stack>>

ResetOp == Running /\ Commit(reset(W0)) /\ UNCHANGED <<tasks, stack>>

\* let endP = testFn()
StartOp ==
    /\ Running /\ Room(2)
    /\ Commit(StartTestFn(W0, "sync"))
    /\ UNCHANGED <<tasks, stack>>

\* await next()
NextOp ==
    /\ Running /\ Room(1) /\ tasks[Self].isAsync
    /\ LET W1 == next(W0) IN Await(W1, Self, W1.ret, "next")

Awaitable(p) == promises[p].kind \in {"fn", "call", "withStub"}

\* await assertDone(p)
AssertDone(p) ==
    /\ Running /\ Room(1) /\ tasks[Self].isAsync
    /\ LET W1 == assertDone(W0, p)
       IN  Await(W1, Self, W1.ret, "assertDone")

AssertDoneOp == \E p \in 1..Len(promises) : Awaitable(p) /\ AssertDone(p)

\* await p, for the promise of a withStub or of the function under test
AwaitPromise(p) ==
    /\ Running /\ tasks[Self].isAsync
    /\ Await(W0, Self, p, "promise")

AwaitOp ==
    \E p \in 1..Len(promises) :
        promises[p].kind \in {"fn", "withStub"} /\ AwaitPromise(p)

\* withStub without its stub()
withStub_noStub(isAsync) ==
    /\ Running
    /\ Room(IF isAsync THEN 2 ELSE 1)
    /\ LET W1 == NewPromise(reset(W0), "withStub", 0)
           ws == W1.ret
           W2 == IF isAsync THEN NewPromise(W1, "body", 0) ELSE W1
           bp == IF isAsync THEN W2.ret ELSE 0
       IN  /\ Commit([W2 EXCEPT !.ps[ws].src = bp])
           /\ tasks' = Append(tasks, Task(bp, ws, TRUE, isAsync))
           /\ stack' = <<Len(tasks) + 1>> \o stack

\* withStub(fn): stub(); reset(); then fn(getCalls, next) runs to its first
\* await.  fn is an async function, or a plain one that will throw.
withStub(isAsync) ==
    /\ Running
    /\ Room(IF isAsync THEN 2 ELSE 1)
    /\ LET W1 == NewPromise(reset(stub(W0)), "withStub", 0)
           ws == W1.ret
           W2 == IF isAsync THEN NewPromise(W1, "body", 0) ELSE W1
           bp == IF isAsync THEN W2.ret ELSE 0
       IN  /\ Commit([W2 EXCEPT !.ps[ws].src = bp])
           /\ tasks' = Append(tasks, Task(bp, ws, TRUE, isAsync))
           /\ stack' = <<Len(tasks) + 1>> \o stack

WithStubOp == \E isAsync \in BOOLEAN : withStub(isAsync)

\* How a task may end: by returning, by throwing, or by letting the error of
\* its last await escape.
Endings(t) ==
    (IF tasks[t].isAsync THEN {[state |-> "fulfilled", value |-> Num(1)]} ELSE {})
    \cup {[state |-> "rejected", value |-> WhoopsErr]}
    \cup (IF tasks[t].last.state = "rejected" THEN {tasks[t].last} ELSE {})

\* The task returns or throws.  An async body settles its own promise; a
\* plain body that throws lands in withStub's finally block at once.
End(o) ==
    /\ Running
    /\    LET t == Self
              W1 == IF tasks[t].promise # 0
                    THEN Settle(W0, tasks[t].promise, o.state, o.value, "task")
                    ELSE IF tasks[t].ws # 0
                    THEN Settle(unstub(W0), tasks[t].ws, o.state, o.value, "task")
                    ELSE W0
          IN  /\ Commit(Leave(W1, t))
              /\ tasks' = [tasks EXCEPT ![t].pc = "done", ![t].first = FALSE,
                                        ![t].result = o]
              /\ stack' = Tail(stack)

EndOp == Running /\ \E o \in Endings(Self) : End(o)

\* One microtask: the oldest job runs once no test code is running.
RunJob ==
    /\ ~Running /\ queue # <<>>
    /\ LET job == Head(queue)
           W == [W0 EXCEPT !.q = Tail(queue)]
       IN  /\ Room(Allocates(W, job))
           /\ IF job.r.kind = "awaitTask"
              THEN /\ Commit(W)
                   /\ tasks' = [tasks EXCEPT ![job.r.target].pc = "run",
                                   ![job.r.target].last =
                                       [state |-> job.state, value |-> job.value]]
                   /\ stack' = <<job.r.target>>
              ELSE /\ Commit(RunReaction(W, job))
                   /\ UNCHANGED <<tasks, stack>>

Next ==
    \/ CallOp
    \/ ResolveOp
    \/ RejectOp
    \/ StubOp
    \/ UnstubOp
    \/ ResetOp
    \/ StartOp
    \/ NextOp
    \/ AssertDoneOp
    \/ AwaitOp
    \/ WithStubOp
    \/ EndOp
    \/ RunJob

Spec == Init /\ [][Next]_vars

---------------------------------------------------------------------------
\* The stepping test of index.test.ts, in all its variations: the runner
\* awaits withStub(body); the body starts the function under test, then
\* tick after tick resolves or rejects entries of getCalls() and awaits
\* next(), may await assertDone(endP), and ends.  After withStub the runner
\* makes one more call.

Runner == 1
Body == 2
Ticks == Cardinality({p \in 1..Len(promises) : promises[p].kind = "next"})
InBody == Running /\ Self = Body /\ futs # <<>>

FlowInit ==
    /\ context = [calls |-> <<>>, stub |-> "undefined"]
    /\ promises = <<>>
    /\ queue = <<>>
    /\ tasks = <<Task(0, 0, FALSE, TRUE)>>
    /\ stack = <<1>>
    /\ futs = <<>>
    /\ realCalls = <<>>
    /\ tracked = <<>>
    /\ heapLimit = FlowPromises

FlowWithStub == Running /\ Self = Runner /\ Len(tasks) = 1 /\ withStub(TRUE)

FlowAwait ==
    /\ Running /\ Self = Runner /\ Len(tasks) = 2 /\ tasks[Runner].on = 0
    /\ AwaitPromise(tasks[Body].ws)

FlowStart == Running /\ Self = Body /\ futs = <<>> /\ StartOp

\* Values and errors the stepping test settles calls with.
FlowValues == {Num(5), Num(10), Num(15)}
FlowErrors == {SplatErr, WhoopsErr}

FlowResolve == InBody /\ \E i \in Indexes, v \in FlowValues : Resolve(i, v)

FlowReject == InBody /\ \E i \in Indexes, e \in FlowErrors : Reject(i, e)

FlowNext == InBody /\ Ticks < MaxTicks /\ NextOp

Races == {p \in 1..Len(promises) : promises[p].kind = "race"}

FlowAssertDone == InBody /\ Races = {} /\ AssertDone(futs[1].p)

FlowEnd == InBody /\ EndOp

FlowCall ==
    /\ Running /\ Self = Runner /\ tasks[Runner].on # 0 /\ realCalls = <<>>
    /\ Call(SpyCmd(1))

FlowNextStep ==
    \/ FlowWithStub
    \/ FlowAwait
    \/ FlowStart
    \/ FlowResolve
    \/ FlowReject
    \/ FlowNext
    \/ FlowAssertDone
    \/ FlowEnd
    \/ FlowCall
    \/ RunJob

FlowSpec == FlowInit /\ [][FlowNextStep]_vars

---------------------------------------------------------------------------
\* src/unnamed/part_000: the variant of stub.ts that keeps the registry in
\* the module variable `calls` and switches stubbing with setStub of call.ts.
\* Here context.calls stands for `calls` and context.stub for the stub
\* function call.ts holds: "true" when it is track, "undefined" when unset.

\* setStub(fn?) of call.ts
setStub(W, fn) == [W EXCEPT !.ctx.stub = fn]

\* track of part_000: records whenever it is called
closureTrack(W, cmd, by) ==
    LET W1 == NewPromise(W, "call", 0)
        p == W1.ret
        c == IF cmd.context = "undefined" \/ cmd.context = "null"
             THEN [fn |-> cmd.fn, args |-> cmd.args]
             ELSE cmd
    IN  [W1 EXCEPT !.ctx.calls =
             Append(@, [cmd |-> c, resolve |-> Handle(p, "fulfilled"),
                        reject |-> Handle(p, "rejected")]),
                   !.log = Append(@, [cmd |-> cmd, p |-> p, by |-> by])]

\* stub of part_000: reset(); setStub(track)
closureStub(W) == setStub(reset(W), "true")

\* unstub of part_000: setStub(), and nothing else
closureUnstub(W) == setStub(W, "undefined")

\* call of call.ts: the stub function when one is set, else the real one
closureCall(W, c, by) ==
    LET cmd == CmdOf(c)
    IN  IF Truthy(W.ctx.stub) THEN closureTrack(W, cmd, by)
        ELSE LET W2 == Resolved(W, RealResult(cmd), "real", "real")
             IN  [W2 EXCEPT !.real = Append(@, cmd)]

ClosureCallOp ==
    \E c \in Invocations :
        /\ Running /\ Room(1)
        /\ Commit(closureCall(W0, c, "sync"))
        /\ UNCHANGED <<tasks, stack>>

ClosureStubOp == Running /\ Commit(closureStub(W0)) /\ UNCHANGED <<tasks, stack>>

ClosureUnstubOp ==
    Running /\ Commit(closureUnstub(W0)) /\ UNCHANGED <<tasks, stack>>

\* withStub of part_000: the text of stub.ts, over part_000's stub
closureWithStub(isAsync) ==
    /\ Running
    /\ Room(IF isAsync THEN 2 ELSE 1)
    /\ LET W1 == NewPromise(reset(closureStub(W0)), "withStub", 0)
           ws == W1.ret
           W2 == IF isAsync THEN NewPromise(W1, "body", 0) ELSE W1
           bp == IF isAsync THEN W2.ret ELSE 0
       IN  /\ Commit([W2 EXCEPT !.ps[ws].src = bp])
           /\ tasks' = Append(tasks, Task(bp, ws, TRUE, isAsync))
           /\ stack' = <<Len(tasks) + 1>> \o stack

ClosureWithStubOp == \E isAsync \in BOOLEAN : closureWithStub(isAsync)

\* The finally block of part_000's withStub
closureWithStubFinally(W, ws, job) ==
    Settle(closureUnstub(W), ws, job.state, job.value, job.origin)

ClosureEndOp ==
    /\ Running
    /\ \E o \in Endings(Self) :
          LET t == Self
              W1 == IF tasks[t].promise # 0
                    THEN Settle(W0, tasks[t].promise, o.state, o.value, "task")
                    ELSE IF tasks[t].ws # 0
                    THEN Settle(closureUnstub(W0), tasks[t].ws,
                                o.state, o.value, "task")
                    ELSE W0
          IN  /\ Commit(Leave(W1, t))
              /\ tasks' = [tasks EXCEPT ![t].pc = "done", ![t].first = FALSE,
                                        ![t].result = o]
              /\ stack' = Tail(stack)

ClosureRunJob ==
    /\ ~Running /\ queue # <<>>
    /\ LET job == Head(queue)
           W == [W0 EXCEPT !.q = Tail(queue)]
       IN  IF job.r.kind = "awaitTask"
           THEN /\ Commit(W)
                /\ tasks' = [tasks EXCEPT ![job.r.target].pc = "run",
                                ![job.r.target].last =
                                    [state |-> job.state, value |-> job.value]]
                /\ stack' = <<job.r.target>>
           ELSE /\ Commit(IF job.r.kind = "withStubFinally"
                          THEN closureWithStubFinally(W, job.r.target, job)
                          ELSE RunReaction(W, job))
                /\ UNCHANGED <<tasks, stack>>

ClosureNext ==
    \/ ClosureCallOp
    \/ ResolveOp
    \/ RejectOp
    \/ ClosureStubOp
    \/ ClosureUnstubOp
    \/ ResetOp
    \/ NextOp
    \/ AssertDoneOp
    \/ AwaitOp
    \/ ClosureWithStubOp
    \/ ClosureEndOp
    \/ ClosureRunJob

ClosureSpec == Init /\ [][ClosureNext]_vars

---------------------------------------------------------------------------
\* Test code that keeps an entry in a local and uses it later, as
\* `let firstCall = getCalls(0)` of the example test does.

\* Every way the test settles an entry: resolve with a value or reject with
\* an error.
SettleCalls ==
    {[to |-> "fulfilled", v |-> v] : v \in ResolveValues}
        \cup {[to |-> "rejected", v |-> e] : e \in RejectErrors}

\* let kept = getCalls(i)
KeepOp ==
    /\ Running
    /\ \E i \in Indexes :
          /\ tasks[Self].kept # getCalls(context, i)
          /\ tasks' = [tasks EXCEPT ![Self].kept = getCalls(context, i)]
    /\ UNCHANGED <<context, promises, queue, stack, futs, realCalls, tracked,
                   heapLimit>>

\* The entry is in the ledger no more.
Dropped(e) == \A i \in 1..Len(context.calls) : context.calls[i] # e

\* kept.resolve(v) / kept.reject(e), once the entry has left the ledger:
\* origin "kept" marks a settlement made this way.
KeptSettle(c) ==
    /\ Running
    /\ tasks[Self].kept # <<>>
    /\ Dropped(tasks[Self].kept[1])
    /\ LET e == tasks[Self].kept[1]
           h == IF c.to = "fulfilled" THEN e.resolve ELSE e.reject
       IN  Commit(Settle(W0, h.p, h.to, c.v, "kept"))
    /\ UNCHANGED <<tasks, stack>>

KeptSettleOp == \E c \in SettleCalls : KeptSettle(c)

KeepNext ==
    \/ CallOp
    \/ ResolveOp
    \/ RejectOp
    \/ StubOp
    \/ UnstubOp
    \/ ResetOp
    \/ StartOp
    \/ NextOp
    \/ AssertDoneOp
    \/ AwaitOp
    \/ WithStubOp
    \/ EndOp
    \/ RunJob
    \/ KeepOp
    \/ KeptSettleOp

KeepInit ==
    /\ context = [calls |-> <<>>, stub |-> "undefined"]
    /\ promises = <<>>
    /\ queue = <<>>
    /\ tasks = <<Task(0, 0, FALSE, TRUE)>>
    /\ stack = <<1>>
    /\ futs = <<>>
    /\ realCalls = <<>>
    /\ tracked = <<>>
    /\ heapLimit = KeepPromises

KeepSpec == KeepInit /\ [][KeepNext]_vars

---------------------------------------------------------------------------
\* Test code that uses withStub only, one inside or alongside another, and
\* never calls stub(), unstub() or reset() itself.

NestInit ==
    /\ context = [calls |-> <<>>, stub |-> "undefined"]
    /\ promises = <<>>
    /\ queue = <<>>
    /\ tasks = <<Task(0, 0, FALSE, TRUE)>>
    /\ stack = <<1>>
    /\ futs = <<>>
    /\ realCalls = <<>>
    /\ tracked = <<>>
    /\ heapLimit = NestPromises

NestNext ==
    \/ WithStubOp
    \/ CallOp
    \/ ResolveOp
    \/ RejectOp
    \/ NextOp
    \/ AwaitOp
    \/ EndOp
    \/ RunJob

NestSpec == NestInit /\ [][NestNext]_vars

---------------------------------------------------------------------------
\* Properties

IsCall(p) == promises[p].kind = "call"
Ids == 1..Len(promises)

\* C1: while stubbing is active, getCalls() holds exactly the commands
\* tracked since the last reset()/next()/unstub(), one entry per invocation
\* and in call order: the i-th entry carries the fn and args of the i-th
\* invocation and the resolve/reject functions of the promise it returned.
C1_LedgerIsCallsInOrder ==
    Truthy(context.stub) =>
        /\ Len(context.calls) = Len(tracked)
        /\ \A i \in 1..Len(context.calls) :
              LET e == context.calls[i]
                  l == tracked[i]
              IN  /\ e.resolve = Handle(l.p, "fulfilled")
                  /\ e.reject = Handle(l.p, "rejected")
                  /\ e.cmd.fn = l.cmd.fn /\ e.cmd.args = l.cmd.args

\* Two calls recorded after an earlier one was cleared by a reset.
C1_Witness ==
    /\ Truthy(context.stub)
    /\ Len(context.calls) = 2
    /\ \E p \in Ids : IsCall(p) /\ p < context.calls[1].resolve.p
    /\ context.calls[1].cmd.args # context.calls[2].cmd.args

\* C2: a call made while stubbing is inactive writes nothing to the ledger
\* and creates no deferred promise: it invokes the real function with the
\* given context and arguments and returns that function's promise; and the
\* real function is invoked only by such a call.
C2_InactiveCallPassesThrough ==
    [][ /\ realCalls' # realCalls =>
              /\ ~Truthy(context.stub)
              /\ context' = context /\ tracked' = tracked
        /\ \A c \in Invocations :
              (~Truthy(context.stub) /\ Call(c)) =>
                  /\ realCalls' = Append(realCalls, CmdOf(c))
                  /\ context' = context /\ tracked' = tracked
                  /\ Len(promises') = Len(promises) + 1
                  /\ promises'[Len(promises')].kind = "real"
                  /\ promises'[Len(promises')].state = "fulfilled"
                  /\ promises'[Len(promises')].value = RealResult(CmdOf(c)) ]_vars

\* A real invocation after a session that recorded a call was torn down.
C2_Witness ==
    /\ context.stub = "false"
    /\ context.calls = <<>>
    /\ \E p, r \in Ids : p < r /\ IsCall(p) /\ promises[r].kind = "real"

\* C3: in a session the promise an intercepted call returned stays pending
\* until the test calls one of the entry's functions; getCalls(i).resolve(v)
\* on a pending call fulfils the promise that call returned with exactly v,
\* which is the value the awaiting function under test goes on with; and
\* the real function is not invoked while stubbing is active.
C3_ResolveFulfilsCallWithValue ==
    [][ /\ \A p \in Ids :
              (IsCall(p) /\ promises[p].state = "pending"
                         /\ promises'[p].state # "pending") =>
                  \E i \in Indexes :
                      /\ tracked[i + 1].p = p
                      /\ \/ \E v \in FlowValues : Resolve(i, v)
                         \/ \E e \in FlowErrors : Reject(i, e)
        /\ \A i \in Indexes, v \in FlowValues :
              (Resolve(i, v) /\ promises[tracked[i + 1].p].state = "pending") =>
                  /\ promises'[tracked[i + 1].p].state = "fulfilled"
                  /\ promises'[tracked[i + 1].p].value = v
        /\ \A f \in 1..Len(futs) :
              (futs[f].pc = 1 /\ futs'[f].pc = 2) =>
                  /\ IsCall(futs[f].on)
                  /\ Num(futs'[f].x) = promises[futs[f].on].value
        /\ realCalls' # realCalls => ~Truthy(context.stub) ]_vars

\* The function under test went on with the value 10 the test resolved its
\* first call with, and no real function ran.
C3_Witness ==
    /\ futs # <<>> /\ futs[1].pc = 2 /\ futs[1].x = 10
    /\ \E p \in Ids : /\ IsCall(p) /\ promises[p].value = Num(10)
                       /\ promises[p].origin = "handle"
    /\ realCalls = <<>>

\* The calls a Promise.all of the function under test collects: the two
\* promises created right before it.
ElementsOf(all) == {all - 2, all - 1}

\* An error the function under test did not catch is the error of the call
\* it was awaiting: of its first call, or of one of its two parallel calls
\* through the Promise.all that collects them.
FutRejectsWithCallError ==
    /\ \A a \in Ids :
          (promises[a].kind = "all" /\ promises[a].state = "rejected") =>
              \E p \in ElementsOf(a) :
                  /\ promises[p].state = "rejected"
                  /\ promises[p].value = promises[a].value
    /\ \A f \in 1..Len(futs) :
          LET endP == promises[futs[f].p]
              on == promises[futs[f].on]
          IN  /\ endP.state = "rejected" =>
                    on.state = "rejected" /\ on.value = endP.value
              /\ (futs[f].pc = 3 /\ on.state = "rejected") =>
                    endP.state = "rejected"

\* C4: getCalls(i).reject(e) on a pending call rejects the promise that call
\* returned with e itself, and the promise of the function under test, which
\* catches nothing, rejects with that same e.
C4_RejectPropagatesSameError ==
    [][ /\ \A i \in Indexes, e \in FlowErrors :
              (Reject(i, e) /\ promises[tracked[i + 1].p].state = "pending") =>
                  /\ promises'[tracked[i + 1].p].state = "rejected"
                  /\ promises'[tracked[i + 1].p].value = e
        /\ FutRejectsWithCallError' ]_vars

\* The function under test was rejected with the Whoops error the test
\* rejected one of its parallel calls with.
C4_Witness ==
    /\ futs # <<>> /\ futs[1].pc = 3
    /\ promises[futs[1].p].state = "rejected"
    /\ promises[futs[1].p].value = WhoopsErr
    /\ promises[futs[1].on].kind = "all"
    /\ promises[futs[1].on - 1].origin = "handle"
    /\ promises[futs[1].on - 1].value = WhoopsErr

\* Task t comes back from `await next()` in this step.
ReturnsFromNext(t) ==
    /\ tasks[t].pc = "await" /\ tasks[t].awaiting = "next"
    /\ tasks'[t].pc = "run"

\* The calls tracked after promise p was created, oldest first.
RECURSIVE CallsAfter(_, _)
CallsAfter(p, n) ==
    IF n <= p THEN <<>>
    ELSE IF IsCall(n) THEN Append(CallsAfter(p, n - 1), n)
    ELSE CallsAfter(p, n - 1)

\* C5: when `await next()` returns, the ledger holds, in issue order, exactly
\* the calls made since next() was called, each issued by a continuation
\* that a resolve/reject of the test set off, and no entry that was in the
\* ledger before next() was called.
C5_AfterNextOnlyNewCalls ==
    [][ \A t \in 1..Len(tasks) :
            ReturnsFromNext(t) =>
                /\ [i \in 1..Len(context'.calls) |-> context'.calls[i].resolve.p]
                       = CallsAfter(tasks[t].on, Len(promises))'
                /\ \A i \in 1..Len(context'.calls) :
                      /\ context'.calls[i].resolve.p > tasks[t].on
                      /\ tracked'[i].p = context'.calls[i].resolve.p
                      /\ tracked'[i].by = "handle" ]_vars

\* Back from next(): the first call, resolved before next(), is gone, and
\* the two parallel calls its continuation made are there.
C5_Witness ==
    /\ Len(tasks) >= Body
    /\ tasks[Body].pc = "run" /\ tasks[Body].awaiting = "next"
    /\ Len(context.calls) = 2
    /\ context.calls[1].cmd.args = <<2>> /\ context.calls[2].cmd.args = <<3>>
    /\ \E p \in Ids : /\ IsCall(p) /\ p < tasks[Body].on
                       /\ promises[p].state = "fulfilled"

IsWithStub(p) == promises[p].kind = "withStub"

\* C6: in the step that settles the promise of a withStub, by fulfilment or
\* by rejection of its body or by a body that throws, stubbing ends up
\* inactive and the ledger empty; a call made next passes through (C2), and
\* every withStub starts its body on an empty ledger with stubbing active.
C6_WithStubCleansUp ==
    [][ /\ \A w \in Ids :
              (IsWithStub(w) /\ promises[w].state = "pending"
                             /\ promises'[w].state # "pending") =>
                  /\ context'.stub = "false"
                  /\ context'.calls = <<>>
                  /\ \A c \in Invocations : track(W0, c, "sync")'.ret = 0
        /\ \A a \in BOOLEAN :
              withStub(a) => Truthy(context'.stub) /\ context'.calls = <<>> ]_vars

\* The runner is back from awaiting a withStub whose async body recorded a
\* call and then rejected: stubbing is off and the ledger empty.
C6_Witness ==
    /\ tasks[Runner].pc = "run" /\ tasks[Runner].last.state = "rejected"
    /\ \E w, p \in Ids :
          /\ IsWithStub(w) /\ promises[w].state = "rejected"
          /\ promises[w].src # 0 /\ tasks[Runner].on = w
          /\ IsCall(p) /\ p > w
    /\ context.stub = "false" /\ context.calls = <<>>

\* C7: once settled, the promise of withStub(body) has the state and the
\* value of the body's outcome: the value an async body fulfilled with, the
\* very error it rejected with, or the error a plain body threw.
C7_WithStubKeepsOutcome ==
    \A t \in 1..Len(tasks) :
        (tasks[t].ws # 0 /\ promises[tasks[t].ws].state # "pending") =>
            LET ws == promises[tasks[t].ws]
            IN  /\ tasks[t].pc = "done"
                /\ ws.state = tasks[t].result.state
                /\ ws.value = tasks[t].result.value
                /\ tasks[t].isAsync =>
                      /\ promises[ws.src].state = ws.state
                      /\ promises[ws.src].value = ws.value

\* A withStub rejected with the Whoops error its async body rejected with,
\* after the cleanup emptied a ledger that held a call.
C7_Witness ==
    \E t \in 1..Len(tasks), p \in Ids :
        /\ tasks[t].isAsync /\ tasks[t].ws # 0
        /\ promises[tasks[t].ws].state = "rejected"
        /\ promises[tasks[t].ws].value = WhoopsErr
        /\ promises[tasks[t].promise].value = WhoopsErr
        /\ IsCall(p) /\ p > tasks[t].ws

IsRace(r) == promises[r].kind = "race"

\* C9: the promise assertDone(p) returns fulfils with p's value when p was
\* already fulfilled, rejects with p's own error when p was already
\* rejected, and rejects with the "has not resolved or rejected" message
\* when p stays pending; it never hangs, as while it is pending a job that
\* settles it is in the microtask queue; and the task awaiting it gets that
\* outcome.
C9_AssertDoneOutcome ==
    /\ \A r \in Ids :
          IsRace(r) =>
              LET race == promises[r]
                  p == promises[race.src]
              IN  /\ (race.state # "pending" /\ race.seen = "fulfilled") =>
                        race.state = "fulfilled" /\ race.value = p.value
                  /\ (race.state # "pending" /\ race.seen = "rejected") =>
                        race.state = "rejected" /\ race.value = p.value
                  /\ (race.state # "pending" /\ p.state = "pending") =>
                        race.state = "rejected" /\ race.value = NotDoneMsg
                  /\ race.state = "pending" =>
                        \E j \in 1..Len(queue) :
                            queue[j].r = Reaction("race", r, 2)
    /\ \A t \in 1..Len(tasks) :
          (tasks[t].pc = "run" /\ tasks[t].awaiting = "assertDone") =>
              /\ tasks[t].last.state = promises[tasks[t].on].state
              /\ tasks[t].last.value = promises[tasks[t].on].value

\* Two assertDone on the same call: the first, made while the call was
\* pending, rejected with the message; the second, made after the test
\* resolved the call with 10, gave 10 to the awaiting task.
C9_Witness ==
    \E r1, r2 \in Ids, t \in 1..Len(tasks) :
        /\ IsRace(r1) /\ IsRace(r2) /\ promises[r1].src = promises[r2].src
        /\ promises[r1].seen = "pending" /\ promises[r1].value = NotDoneMsg
        /\ promises[r2].seen = "fulfilled"
        /\ tasks[t].pc = "run" /\ tasks[t].on = r2
        /\ tasks[t].last = [state |-> "fulfilled", value |-> Num(10)]

\* C10: every recorded entry whose call had an undefined or null context has
\* a cmd with exactly the fields fn and args; every other entry has a cmd
\* with fn, args and context, the context being the one supplied; fn and
\* args are those of the call in both cases.
C10_CmdContextNormalised ==
    \A i \in 1..Len(context.calls) :
        /\ i <= Len(tracked)
        /\ LET cmd == context.calls[i].cmd
               given == tracked[i].cmd
           IN  /\ cmd.fn = given.fn /\ cmd.args = given.args
               /\ IF given.context \in {"undefined", "null"}
                  THEN DOMAIN cmd = {"fn", "args"}
                  ELSE /\ DOMAIN cmd = {"fn", "args", "context"}
                       /\ cmd.context = given.context

\* Three entries: a call without context, one with a null context and one
\* bound to contextObj.
C10_Witness ==
    /\ Len(context.calls) = 3
    /\ tracked[1].cmd.context = "undefined"
    /\ tracked[2].cmd.context = "null"
    /\ tracked[3].cmd.context = "contextObj"
    /\ DOMAIN context.calls[2].cmd = {"fn", "args"}
    /\ context.calls[3].cmd.context = "contextObj"

\* The three calls of the function under test, once it made them all: the
\* first, created right after its own promise, and the two its Promise.all
\* collects.
MadeAllCalls == futs # <<>> /\ promises[futs[1].on].kind = "all"
FirstCall == futs[1].p + 1
ParallelCalls == ElementsOf(futs[1].on)
Fulfilled(p) == promises[p].state = "fulfilled"
ResolvedSum ==
    Num(promises[FirstCall].value.n[1] + promises[futs[1].on - 2].value.n[1]
        + promises[futs[1].on - 1].value.n[1])

BodyReturnsFromNext == Len(tasks) >= Body /\ ReturnsFromNext(Body)

\* C8: for the function under test of index.test.ts (one call awaited, then
\* two calls awaited in parallel): right after it starts the ledger has the
\* one entry of its first call; when the test has resolved that call and
\* comes back from one `await next()` the ledger has exactly the two
\* parallel calls, in call order and pending; when it has resolved both and
\* comes back from `await next()` the function's promise is already
\* fulfilled with the sum of the three resolved values; and assertDone on it
\* then gives the test that sum, not the "not resolved" rejection.
\* (Ticks = 1 /\ Races = {}: this `await next()` is the body's first await,
\* so the first call was resolved in the synchronous run that called next.)
C8_SequentialThenParallel ==
    [][ /\ (futs = <<>> /\ futs' # <<>>) =>
              /\ Len(context'.calls) = 1
              /\ context'.calls[1].cmd = [fn |-> "spy", args |-> <<1>>]
        /\ (BodyReturnsFromNext /\ Ticks = 1 /\ Races = {}
               /\ Fulfilled(FirstCall)) =>
              /\ Len(context'.calls) = 2
              /\ context'.calls[1].cmd = [fn |-> "spy", args |-> <<2>>]
              /\ context'.calls[2].cmd = [fn |-> "spy", args |-> <<3>>]
              /\ \A i \in 1..2 :
                    promises'[context'.calls[i].resolve.p].state = "pending"
        /\ (BodyReturnsFromNext /\ MadeAllCalls
               /\ \A p \in ParallelCalls : Fulfilled(p)) =>
              /\ promises'[futs[1].p].state = "fulfilled"
              /\ promises'[futs[1].p].value = ResolvedSum
              /\ context'.calls = <<>>
        /\ (Len(tasks) >= Body /\ MadeAllCalls
               /\ tasks[Body].pc = "await" /\ tasks[Body].awaiting = "assertDone"
               /\ tasks'[Body].pc = "run"
               /\ promises[tasks[Body].on].seen = "fulfilled") =>
              tasks'[Body].last = [state |-> "fulfilled", value |-> ResolvedSum]
      ]_vars

\* The test of index.test.ts: the calls resolved with 5, 10 and 15, and the
\* body back from `await assertDone(endP)` with 30.
C8_Witness ==
    /\ Len(tasks) >= Body /\ MadeAllCalls
    /\ tasks[Body].pc = "run" /\ tasks[Body].awaiting = "assertDone"
    /\ promises[FirstCall].value = Num(5)
    /\ promises[futs[1].on - 2].value = Num(10)
    /\ promises[futs[1].on - 1].value = Num(15)
    /\ tasks[Body].last = [state |-> "fulfilled", value |-> Num(30)]
    /\ Ticks = 2 /\ realCalls = <<>>

\* The calls of index.test.ts that give a context: by method name and by
\* function reference.
WithContext == {c \in Invocations : c.context \in {"contextObj", "contextObj2"}}

\* C11: a call given a context and a method name, or a context and a
\* function, records while stubbing is active one more entry whose cmd.fn is
\* the function itself (contextObj.tick, never the name), whose cmd.context
\* is the given context and whose cmd.args are the arguments; while stubbing
\* is inactive it invokes that function bound to the given context, so the
\* result is the argument plus the incr of that context.
C11_ContextAndMethodName ==
    [][ \A c \in WithContext :
            Call(c) =>
                IF Truthy(context.stub)
                THEN /\ Len(context'.calls) = Len(context.calls) + 1
                     /\ SubSeq(context'.calls, 1, Len(context.calls))
                            = context.calls
                     /\ context'.calls[Len(context'.calls)].cmd =
                            [context |-> c.context, fn |-> "contextObj.tick",
                             args |-> c.args]
                     /\ realCalls' = realCalls
                ELSE /\ realCalls' = Append(realCalls,
                            [context |-> c.context, fn |-> "contextObj.tick",
                             args |-> c.args])
                     /\ promises'[Len(promises')].state = "fulfilled"
                     /\ promises'[Len(promises')].value =
                            Num(c.args[1] + Incr(c.context))
                     /\ context' = context ]_vars

\* call(contextObj, "tick")(1) went to the real method, which gave 2, and
\* then, with stubbing on, call(contextObj2, contextObj.tick)(2) was recorded.
C11_Witness ==
    /\ Len(realCalls) = 1 /\ realCalls[1].context = "contextObj"
    /\ \E p \in Ids : promises[p].kind = "real" /\ promises[p].value = Num(2)
    /\ Len(context.calls) = 1
    /\ "context" \in DOMAIN context.calls[1].cmd
    /\ context.calls[1].cmd.context = "contextObj2"
    /\ context.calls[1].cmd.fn = "contextObj.tick"

\* C12: getCalls(n) is the (n+1)-th element of the list getCalls() returns,
\* counted in insertion order, for every n from 0 to length - 1, and is
\* undefined for every other n, on an empty ledger too; reading leaves the
\* ledger as it is, so getCalls(i).resolve(v) settles the promise of that
\* very entry and of no other.
C12_GetCallsByIndex ==
    /\ [](\A n \in (0 - 2)..(Len(context.calls) + 2) :
              IF 0 <= n /\ n < Len(context.calls)
              THEN getCalls(context, n) = <<context.calls[n + 1]>>
              ELSE getCalls(context, n) = <<>>)
    /\ [][ (promises' # promises /\ Len(promises') = Len(promises)) =>
              \A i \in Indexes, v \in ResolveValues :
                  Resolve(i, v) =>
                      /\ context' = context
                      /\ promises'[context.calls[i + 1].resolve.p].state
                             # "pending"
                      /\ \A p \in Ids :
                            p # context.calls[i + 1].resolve.p =>
                                promises'[p] = promises[p] ]_vars

\* getCalls(1).resolve(10) on a ledger of two entries: the second call is
\* fulfilled with 10 and the first still pending.
C12_Witness ==
    /\ Len(context.calls) = 2
    /\ getCalls(context, 2) = <<>>
    /\ promises[context.calls[1].resolve.p].state = "pending"
    /\ promises[context.calls[2].resolve.p].value = Num(10)
    /\ promises[context.calls[2].resolve.p].origin = "handle"

\* C13: stub() called in any reachable state, inactive or active with
\* entries in the ledger, leaves stubbing active and the ledger empty.
C13_StubActivatesAndClears ==
    LET W == stub(W0)
    IN  Truthy(W.ctx.stub) /\ W.ctx.calls = <<>>

\* The unstub of stub.ts leaves stubbing inactive and the ledger empty.
UnstubDeactivatesAndClears ==
    LET W == unstub(W0)
    IN  ~Truthy(W.ctx.stub) /\ W.ctx.calls = <<>>

\* C14: unstub() called in any reachable state leaves stubbing inactive and
\* the ledger empty, so that getCalls() shows no entry of the session that
\* ended; stated for the unstub of part_000.
C14_ClosureUnstubClears ==
    LET W == closureUnstub(W0)
    IN  ~Truthy(W.ctx.stub) /\ W.ctx.calls = <<>>

\* The ledger before the step is the beginning of the ledger after it.
LedgerKept ==
    /\ Len(context'.calls) >= Len(context.calls)
    /\ SubSeq(context'.calls, 1, Len(context.calls)) = context.calls

\* The steps that run reset(): reset(), unstub(), next(), the start of a
\* withStub and its finally block.
Clears ==
    \/ ResetOp
    \/ UnstubOp
    \/ NextOp
    \/ WithStubOp
    \/ EndOp
    \/ (~Running /\ queue # <<>> /\ Head(queue).r.kind = "withStubFinally")

\* C15: getCalls(i).resolve(v) and getCalls(i).reject(e) leave the ledger as
\* it was, same length, same entries, same order; and every entry stays at
\* its index through every step that is not a reset(), next() or unstub().
C15_SettledEntryStays ==
    [][ /\ (promises' # promises /\ Len(promises') = Len(promises)) =>
              /\ \A i \in Indexes, v \in ResolveValues :
                    Resolve(i, v) => context' = context
              /\ \A i \in Indexes, e \in RejectErrors :
                    Reject(i, e) => context' = context
        /\ ~LedgerKept => Clears ]_vars

\* The first of two entries was resolved with 5 and is still the first.
C15_Witness ==
    /\ Len(context.calls) = 2
    /\ promises[context.calls[1].resolve.p].state = "fulfilled"
    /\ promises[context.calls[1].resolve.p].value = Num(5)
    /\ promises[context.calls[1].resolve.p].origin = "handle"
    /\ promises[context.calls[2].resolve.p].state = "pending"

\* C16: a resolve or reject only queues the continuations of the call: in a
\* step of running test code the function under test does not advance and
\* no call of a continuation is recorded; the calls of a continuation are
\* appended by a microtask, when no test code runs, behind every entry the
\* ledger already had.
C16_ContinuationsDeferred ==
    [][ /\ Running =>
              /\ \A f \in 1..Len(futs) : futs'[f] = futs[f]
              /\ \A k \in (Len(tracked) + 1)..Len(tracked') :
                    tracked'[k].by = "sync"
        /\ (promises' # promises /\ Len(promises') = Len(promises)) =>
              \A i \in Indexes :
                  ((\E v \in FlowValues : Resolve(i, v))
                      \/ (\E e \in FlowErrors : Reject(i, e))) =>
                      /\ context' = context /\ futs' = futs
                      /\ Len(queue') = Len(queue)
                            + Len(promises[tracked[i + 1].p].reactions)
        /\ (\E k \in (Len(tracked) + 1)..Len(tracked') :
                  tracked'[k].by = "handle") =>
              ~Running /\ LedgerKept ]_vars

\* The test resolved the first call and is still running: the function
\* under test has not moved, its continuation is in the microtask queue and
\* the ledger has the one entry it had.
C16_Witness ==
    /\ Running /\ futs # <<>> /\ futs[1].pc = 1
    /\ promises[FirstCall].state = "fulfilled"
    /\ promises[FirstCall].origin = "handle"
    /\ Len(context.calls) = 1
    /\ \E j \in 1..Len(queue) : queue[j].r.kind = "fut"

\* The job that resumes task t from its await with the outcome of job j.
ResumeJob(t, j) == Job(Reaction("awaitTask", t, 0), j.state, j.value, j.origin)

\* C17: in the step that calls next() the ledger is emptied, whatever it
\* held and whenever that was recorded, and the caller is suspended behind
\* one new microtask, put at the end of the queue; when that microtask runs
\* it fulfils next()'s promise and queues the caller's resumption at the end
\* of the queue as it then is, whatever else is queued or still to come: so
\* next() takes one turn and does not wait for the queue to drain.
C17_NextClearsThenOneTurn ==
    [][ /\ (Running /\ NextOp) =>
              /\ context'.calls = <<>>
              /\ context'.stub = context.stub
              /\ stack' = Tail(stack)
              /\ tasks'[Self].pc = "await"
              /\ promises'[tasks'[Self].on].state = "pending"
              /\ queue' = Append(queue,
                    Job(Reaction("asyncNext", tasks'[Self].on, 0),
                        "fulfilled", Undefined, "next"))
        /\ (~Running /\ queue # <<>> /\ Head(queue).r.kind = "asyncNext") =>
              LET np == Head(queue).r.target
              IN  /\ promises'[np].state = "fulfilled"
                  /\ context' = context
                  /\ \A t \in 1..Len(tasks) :
                        (tasks[t].pc = "await" /\ tasks[t].on = np) =>
                            queue' = Append(Tail(queue),
                                            ResumeJob(t, Head(queue))) ]_vars

\* The body is back from its second `await next()`: the two parallel calls,
\* recorded during the first one, are gone from the ledger, and a
\* continuation is still waiting in the microtask queue.
C17_Witness ==
    /\ Len(tasks) >= Body /\ MadeAllCalls /\ Ticks = 2
    /\ Running /\ Self = Body /\ tasks[Body].awaiting = "next"
    /\ \A p \in ParallelCalls : promises[p].kind = "call"
    /\ context.calls = <<>>
    /\ queue # <<>>

\* What the resolve (to = "fulfilled") or reject (to = "rejected") function
\* of entry i, called with v, makes of the promises and the queue.
AfterSettling(i, to, v) ==
    Invoke(W0, IF to = "fulfilled" THEN getCalls(context, i)[1].resolve
               ELSE getCalls(context, i)[1].reject, v)

\* C18 as claimed: whatever was done to an entry before, after resolve(v) or
\* reject(e) on it the promise of its call has the outcome of that last
\* call.
C18_LastSettleWins ==
    \A i \in Indexes, c \in SettleCalls :
        LET p == context.calls[i + 1].resolve.p
            W == AfterSettling(i, c.to, c.v)
        IN  W.ps[p].state = c.to /\ W.ps[p].value = c.v

\* C18 amended: a resolve or reject on an entry whose call is still pending
\* gives the promise that outcome; on an entry already settled, by either
\* function, it raises nothing and changes nothing, neither the promise nor
\* the microtask queue nor the ledger; and a settled call keeps its outcome
\* in every later step: the first settle call wins.
C18_FirstSettleWins ==
    /\ [](\A i \in Indexes, c \in SettleCalls :
             LET p == context.calls[i + 1].resolve.p
                 W == AfterSettling(i, c.to, c.v)
             IN  IF promises[p].state = "pending"
                 THEN W.ps[p].state = c.to /\ W.ps[p].value = c.v
                 ELSE W.ps = promises /\ W.q = queue /\ W.ctx = context)
    /\ [][ \A p \in Ids :
              (IsCall(p) /\ promises[p].state # "pending") =>
                  /\ promises'[p].state = promises[p].state
                  /\ promises'[p].value = promises[p].value ]_vars

\* The entry was resolved with 5 and is still in the ledger; resolve(10) and
\* reject(Splat) on it leave the promise fulfilled with 5.
C18_Witness ==
    /\ Len(context.calls) >= 1
    /\ LET p == context.calls[1].resolve.p
       IN  /\ promises[p].state = "fulfilled" /\ promises[p].value = Num(5)
           /\ promises[p].origin = "handle"
           /\ AfterSettling(0, "fulfilled", Num(10)).ps[p].value = Num(5)
           /\ AfterSettling(0, "rejected", SplatErr).ps[p].state = "fulfilled"

\* C19: the promise of a recorded call is settled by a resolve or reject of
\* the test and by nothing else: reset(), next(), stub() and unstub() leave
\* every call promise as it is, so a call the test did not settle is still
\* pending after them, in the ledger or not; and the resolve or reject of an
\* entry the test kept, called after the entry left the ledger, settles the
\* promise of that entry's call with the given outcome.
C19_ClearingSettlesNothing ==
    /\ [](\A p \in Ids :
             (IsCall(p) /\ promises[p].state # "pending") =>
                 promises[p].origin \in {"handle", "kept"})
    /\ [][ /\ (StubOp \/ UnstubOp \/ ResetOp \/ NextOp) =>
                 \A p \in Ids : IsCall(p) => promises'[p] = promises[p]
           /\ \A c \in SettleCalls :
                 (KeptSettle(c)
                     /\ promises[tasks[Self].kept[1].resolve.p].state = "pending")
                 => LET p == tasks[Self].kept[1].resolve.p
                    IN  /\ promises'[p].state = c.to
                        /\ promises'[p].value = c.v
                        /\ context' = context ]_vars

\* After unstub() one call is abandoned, still pending and out of the ledger,
\* and another, whose entry the test kept, was fulfilled with 10 through
\* that entry once the ledger had been cleared.
C19_Witness ==
    /\ context.stub = "false" /\ context.calls = <<>>
    /\ \E p, k \in Ids :
          /\ IsCall(p) /\ promises[p].state = "pending"
          /\ IsCall(k) /\ promises[k].origin = "kept"
          /\ promises[k].state = "fulfilled" /\ promises[k].value = Num(10)
          /\ \E t \in 1..Len(tasks) :
                tasks[t].kept # <<>> /\ tasks[t].kept[1].resolve.p = k

\* C20: in stub.ts, whenever stubbing is inactive (context.stub undefined or
\* false) the ledger is empty.
C20_InactiveMeansEmpty ==
    ~Truthy(context.stub) => context.calls = <<>>

\* Stubbing was switched off after a session that recorded two calls, both
\* left pending.
C20_Witness ==
    /\ context.stub = "false" /\ context.calls = <<>>
    /\ \E p, r \in Ids :
          /\ p < r /\ IsCall(p) /\ IsCall(r)
          /\ promises[p].state = "pending" /\ promises[r].state = "pending"

\* Task t is the body of a withStub and has not returned or thrown yet.
RunningBody(t) == tasks[t].ws # 0 /\ tasks[t].pc # "done"

\* The step settles the promise of a withStub: its finally block ran.
Teardown ==
    \E w \in Ids :
        /\ IsWithStub(w) /\ promises[w].state = "pending"
        /\ promises'[w].state # "pending"

QueuedAt(r) ==
    IF \E j \in 1..Len(queue) : queue[j].r = r
    THEN CHOOSE j \in 1..Len(queue) :
             queue[j].r = r /\ \A k \in 1..(j - 1) : queue[k].r # r
    ELSE 0

====
